---- MODULE Spec2Model ----
(***************************************************************************)
(* Order fulfilment and ledger wallet of taptosell-golang.                 *)
(*                                                                         *)
(* The committed contents of the MySQL tables are the variables stock,     *)
(* pstatus, cart, hasCart, orders and ledger.  Every request worker runs   *)
(* one handler at a time as a database transaction: tx[w] holds the        *)
(* handler's position and local variables together with the rows it has    *)
(* written but not yet committed; the lock variables hold the InnoDB row   *)
(* locks.  A statement that has to wait for a lock is an action that is    *)
(* not enabled until the lock is free.  Money is counted in whole units.   *)
(***************************************************************************)
EXTENDS Integers, Sequences, FiniteSets, TLC

\* ---- bounds of the model ------------------------------------------------
InitStock == 1
MaxQty == 1
MaxCartLines == 2
MaxOrders == 2
MaxLedger == 3
MaxTopUp == 2
MaxCartQty == 1
MaxCartQtyOne == 2
MaxCartQtyLine == 3
VariantStock == 2
MaxPrice == 2
MaxWithdrawals == 2
MaxWithdrawal == 2

Users == {"u1", "u2"}
Procs == {"w1", "w2"}
Products == {1, 2}
Variants == {1, 2, 3}
None == "none"
NoVariant == 0

\* product_variants.product_id: the product a variant row belongs to
VariantProduct(v) == IF v = 2 THEN 2 ELSE 1

\* the (product_id, variant_id) pairs a cart_items row can carry, in scan order
KeySeq == << <<1, NoVariant>>, <<1, 1>>, <<1, 3>>, <<2, NoVariant>>, <<2, 2>> >>
CartKeys == {KeySeq[i] : i \in 1..Len(KeySeq)}

\* products.price_to_tts
InitPrice == [p \in Products |-> p]
\* product_variants.price_to_tts, the price AddToCart reads for a line with a
\* variant.  CreateProduct gives the product the lowest price of its variants:
\* variant 3, the second variant of product 1, costs more than the product
VariantPrice(v) == IF v = 3 THEN 2 ELSE InitPrice[VariantProduct(v)]
\* the prices a supplier can ask for
Prices == 1..MaxPrice

VARIABLES
  stock,     \* products.stock_quantity
  price,     \* products.price_to_tts
  pstatus,   \* products.status
  hasCart,   \* a carts row exists for the user
  cart,      \* cart_items: user -> (key -> quantity), 0 = no row
  cartRows,  \* cart_items: user -> (key -> number of rows with that key)
  orders,    \* orders with their order_items, indexed by order id
  ledger,    \* wallet_transactions in insertion order
  tx,        \* per worker: the running handler and its uncommitted writes
  plock,     \* products row lock holder
  clock,     \* cart_items rows lock holder, per cart
  olock,     \* orders row lock holder
  wS,        \* shared lock holders on a user's wallet_transactions rows
  wX,        \* exclusive lock holder on a user's wallet_transactions rows
  resp,      \* the HTTP response written by the last step
  overdue,   \* the orders whose hold deadline has passed
  withdrawals, \* withdrawal_requests, indexed by request id
  rlock,     \* withdrawal_requests row lock holder
  scn        \* the scenario explored: which workers serve requests, which
             \* users and variant ids the requests name, how large a cart
             \* line grows and which orders the supplier, the buyer and the
             \* sweeper act on; it never changes

vars == <<stock, price, pstatus, hasCart, cart, cartRows, orders, ledger, tx,
          plock, clock, olock, wS, wX, rlock, resp, overdue, withdrawals,
          scn>>
db == <<stock, price, pstatus, hasCart, cart, cartRows, orders, ledger>>
env == <<overdue, scn, withdrawals>>
fixed == <<price, env>>
locks == <<plock, clock, olock, wS, wX, rlock>>

OrderIds == 1..MaxOrders
WithdrawalIds == 1..MaxWithdrawals

\* ---- pure helpers --------------------------------------------------------
RECURSIVE SumAmount(_, _)
SumAmount(l, u) ==
  IF l = <<>> THEN 0
  ELSE (IF l[Len(l)].user = u THEN l[Len(l)].amount ELSE 0)
       + SumAmount(SubSeq(l, 1, Len(l) - 1), u)

\* SELECT SUM(amount) FROM wallet_transactions WHERE user_id = ?  (NULL -> 0)
GetWalletBalance(l, u) == SumAmount(l, u)

EmptyCartOf == [k \in CartKeys |-> 0]
CartLines(c) == {k \in CartKeys : c[k] > 0}

RECURSIVE SeqFilter(_, _)
SeqFilter(s, S) ==
  IF s = <<>> THEN <<>>
  ELSE (IF Head(s) \in S THEN <<Head(s)>> ELSE <<>>) \o SeqFilter(Tail(s), S)

\* a total that stops after the first scanned row
SumTotalFirstRow(items) ==
  IF items = <<>> THEN 0 ELSE Head(items).price * Head(items).quantity
\* totalOrderCost += item.Price * float64(item.Quantity) over the scanned rows
RECURSIVE SumTotal(_)
SumTotal(items) ==
  IF items = <<>> THEN 0
  ELSE Head(items).price * Head(items).quantity + SumTotal(Tail(items))

RECURSIVE SumQty(_, _)
SumQty(items, p) ==
  IF items = <<>> THEN 0
  ELSE (IF Head(items).product = p THEN Head(items).quantity ELSE 0)
       + SumQty(Tail(items), p)

IdleTx == [pc |-> "idle", op |-> None, user |-> None, oid |-> 0, items |-> <<>>,
           total |-> 0, status |-> None, idx |-> 0,
           dec |-> [p \in Products |-> 0], debit |-> <<>>,
           amount |-> 0, rid |-> 0, action |-> None]

NoResp == [op |-> None, code |-> None, product |-> 0]
Reply(w, o, c, p) == [op |-> o, code |-> c, product |-> p]

Running(w) == tx[w].pc # "idle"

\* ---- locks ---------------------------------------------------------------
Free(holder, w) == holder \in {None, w}

\* a transaction end that leaves the locks of the transaction in place
ReleaseNone(w) == UNCHANGED locks
\* tx.Commit() / tx.Rollback(): every lock the transaction holds is released
ReleaseAll(w) ==
  /\ plock' = [p \in Products |-> IF plock[p] = w THEN None ELSE plock[p]]
  /\ clock' = [u \in Users |-> IF clock[u] = w THEN None ELSE clock[u]]
  /\ olock' = [o \in OrderIds |-> IF olock[o] = w THEN None ELSE olock[o]]
  /\ wS' = [u \in Users |-> wS[u] \ {w}]
  /\ wX' = [u \in Users |-> IF wX[u] = w THEN None ELSE wX[u]]
  /\ rlock' = [r \in WithdrawalIds |-> IF rlock[r] = w THEN None ELSE rlock[r]]

\* a rollback that leaves the transaction's stock UPDATEs in place
RollbackKeepsStock(w, code, prod) ==
  /\ tx' = [tx EXCEPT ![w] = IdleTx]
  /\ ReleaseAll(w)
  /\ resp' = Reply(w, tx[w].op, code, prod)
  /\ stock' = [p \in Products |-> stock[p] - tx[w].dec[p]]
  /\ UNCHANGED <<hasCart, cart, cartRows, orders, ledger, pstatus, fixed>>

\* defer tx.Rollback(): the uncommitted writes are dropped, the locks released
Rollback(w, code, prod) ==
  /\ tx' = [tx EXCEPT ![w] = IdleTx]
  /\ ReleaseAll(w)
  /\ resp' = Reply(w, tx[w].op, code, prod)
  /\ UNCHANGED <<db, env>>

\* two workers serve the requests of one user concurrently; every product has
\* one variant
Concurrent == [procs |-> Procs, users |-> {"u1"}, variants |-> {1, 2},
               cartQty |-> MaxCartQty, tracked |-> {1}, edited |-> {2},
               simple |-> {}]
\* one worker serves the requests one handler at a time (top-ups and cart
\* changes still fall between its steps); product 1 has two variants and a
\* cart line can be added to
OneWorker == [procs |-> {"w1"}, users |-> {"u1"}, variants |-> {1, 3},
              cartQty |-> MaxCartQtyOne, tracked |-> {1}, edited |-> {1},
              simple |-> {}]
\* one worker serves two users who buy one variant of product 1
TwoUsers == [procs |-> {"w1"}, users |-> Users, variants |-> {1},
             cartQty |-> MaxCartQty, tracked |-> {1}, edited |-> {1},
             simple |-> {}]
\* one worker, one user, one variant; the supplier, the buyer and the sweeper
\* act on every order
Lifecycle == [procs |-> {"w1"}, users |-> {"u1"}, variants |-> {1},
              cartQty |-> MaxCartQtyLine, tracked |-> OrderIds, edited |-> {1},
              simple |-> {}]
\* one worker, one user; product 1 is a simple product (is_variable = 0, no
\* variant rows) that is on sale with status 'active', the status the cart
\* handlers select, and whose price and stock its supplier edits; no request
\* names a variant
Catalog == [procs |-> {"w1"}, users |-> {"u1"}, variants |-> {},
            cartQty |-> MaxCartQty, tracked |-> {1}, edited |-> {1},
            simple |-> {1}]

InitFor(s) ==
  /\ scn = s
  /\ overdue = {}
  /\ stock = [p \in Products |-> InitStock]
  /\ price = InitPrice
  /\ pstatus = [p \in Products |->
                  IF p \in s.simple THEN "active" ELSE "published"]
  /\ hasCart = [u \in Users |-> FALSE]
  /\ cart = [u \in Users |-> EmptyCartOf]
  /\ cartRows = [u \in Users |-> EmptyCartOf]
  /\ orders = <<>>
  /\ ledger = <<>>
  /\ tx = [w \in Procs |-> IdleTx]
  /\ plock = [p \in Products |-> None]
  /\ clock = [u \in Users |-> None]
  /\ olock = [o \in OrderIds |-> None]
  /\ wS = [u \in Users |-> {}]
  /\ wX = [u \in Users |-> None]
  /\ withdrawals = <<>>
  /\ rlock = [r \in WithdrawalIds |-> None]
  /\ resp = NoResp

Init == InitFor(Concurrent)
InitOneWorker == InitFor(OneWorker)
InitTwoUsers == InitFor(TwoUsers)
InitLifecycle == InitFor(Lifecycle)
InitCatalog == InitFor(Catalog)

\* ---- the ledger write primitive -------------------------------------------
\* a ledger write that takes the amount alone as the new balance
AddWalletTransactionNoPrior(l, u, kind, amount, oid) ==
  [user |-> u, kind |-> kind, amount |-> amount,
   balanceAfter |-> amount, order |-> oid]

\* AddWalletTransaction: the row it inserts, balance_after computed from the
\* SUM(amount) it has just read under the FOR UPDATE lock
AddWalletTransaction(l, u, kind, amount, oid) ==
  [user |-> u, kind |-> kind, amount |-> amount,
   balanceAfter |-> GetWalletBalance(l, u) + amount, order |-> oid]

\* the same SELECT SUM(amount) without FOR UPDATE: it never waits
WalletXFreeNoLock(u, w) == TRUE
\* SELECT SUM(amount) ... FOR UPDATE can proceed: nobody else holds the rows
WalletXFree(u, w) == Free(wX[u], w) /\ wS[u] \subseteq {w}
\* the same SELECT as a shared locking read (serializable transaction)
WalletSFree(u, w) == Free(wX[u], w)
\* the cart_items read without FOR UPDATE: it never waits
CartRowsFreeNoLock(u, w) == TRUE
\* SELECT ... FROM cart_items ... FOR UPDATE can read the cart's rows
CartRowsFree(u, w) == Free(clock[u], w)
\* the orders read without FOR UPDATE: it never waits
OrderRowFreeNoLock(o, w) == TRUE
\* SELECT ... FROM orders ... FOR UPDATE can read the order row
OrderRowFree(o, w) == Free(olock[o], w)
\* a products row can be locked (FOR UPDATE join, UPDATE products)
ProductRowFree(p, w) == Free(plock[p], w)

PendingDebits == Cardinality({w \in Procs : tx[w].debit # <<>>})

PendingOrders == Cardinality({w \in Procs : tx[w].op = "Checkout"})

\* ---- ManualTopUp ----------------------------------------------------------
ManualTopUp(u, amt) ==
  /\ Len(ledger) + PendingDebits < MaxLedger
  /\ WalletXFree(u, None)
  /\ ledger' = Append(ledger, AddWalletTransaction(ledger, u, "topup", amt, 0))
  /\ resp' = Reply(None, "ManualTopUp", "OK", 0)
  /\ UNCHANGED <<stock, hasCart, cart, cartRows, orders, tx, locks, pstatus, fixed>>

\* ---- AddToCart ------------------------------------------------------------
AddToCartFound(prod, variant) ==
  IF variant # NoVariant
  THEN variant \in Variants /\ VariantProduct(variant) = prod
  ELSE pstatus[prod] = "active"

AddToCartStock(prod, variant) ==
  IF variant # NoVariant THEN VariantStock ELSE stock[prod]

\* a lookup of the cart line that finds nothing
CartLineFoundNever(rows, k) == FALSE
\* SELECT quantity FROM cart_items WHERE cart_id = ? AND product_id = ? AND
\* variant_id = ? (or IS NULL) returned a row: err == nil
CartLineFound(rows, k) == rows[k] > 0

AddToCart(u, prod, variant, qty) ==
  LET k == <<prod, variant>> IN
  /\ IF ~AddToCartFound(prod, variant)
     THEN /\ resp' = Reply(None, "AddToCart", "NotFound", prod)
          /\ UNCHANGED <<db, tx, locks, env>>
     ELSE IF AddToCartStock(prod, variant) < qty
     THEN /\ resp' = Reply(None, "AddToCart", "InsufficientStock", prod)
          /\ UNCHANGED <<db, tx, locks, env>>
     ELSE /\ CartRowsFree(u, None)
          /\ cart[u][k] + qty <= scn.cartQty
          /\ Cardinality(CartLines(cart[u]) \cup {k}) <= MaxCartLines
          /\ hasCart' = [hasCart EXCEPT ![u] = TRUE]
          /\ IF CartLineFound(cartRows[u], k)
             THEN \* UPDATE cart_items SET quantity = quantity + ?
                  /\ cart' = [cart EXCEPT ![u][k] = @ + qty * cartRows[u][k]]
                  /\ UNCHANGED cartRows
             ELSE \* INSERT INTO cart_items
                  /\ cart' = [cart EXCEPT ![u][k] = @ + qty]
                  /\ cartRows' = [cartRows EXCEPT ![u][k] = @ + 1]
          /\ resp' = Reply(None, "AddToCart", "Created", prod)
          /\ UNCHANGED <<stock, orders, ledger, tx, locks, pstatus, fixed>>

\* ---- Checkout -------------------------------------------------------------
\* the rows of: cart_items JOIN products WHERE p.status = 'published'
CartItemRows(u) ==
  LET keys == SeqFilter(KeySeq, {k \in CartKeys :
                  cart[u][k] > 0 /\ pstatus[k[1]] = "published"})
  IN [i \in 1..Len(keys) |->
        [product |-> keys[i][1], quantity |-> cart[u][keys[i]],
         price |-> price[keys[i][1]], stock |-> stock[keys[i][1]]]]

\* what the handlers keep of a scanned row once the stock test has passed
OrderLines(items) ==
  [i \in 1..Len(items) |-> [product |-> items[i].product,
                            quantity |-> items[i].quantity,
                            unitPrice |-> items[i].price]]

\* the product rows the FOR UPDATE join locks: it reads the products row of
\* every cart line before it can test p.status
CheckoutLocked(u) == {k[1] : k \in CartLines(cart[u])}

\* BeginTx(serializable), SELECT id FROM carts, then SELECT ... FOR UPDATE with
\* the scan loop, its stock check and the empty check.  The carts row is never
\* changed once it exists, so the handler's first observable step is the
\* locking read, which waits until the cart and product rows are free.
CheckoutBegin(w, u) ==
  LET items == CartItemRows(u)
      short == {i \in 1..Len(items) : items[i].stock < items[i].quantity}
  IN
  /\ tx[w].pc = "idle"
  /\ Len(orders) + PendingOrders < MaxOrders
  /\ IF ~hasCart[u]
     THEN /\ resp' = Reply(w, "Checkout", "EmptyCart", 0)
          /\ UNCHANGED <<db, tx, locks, env>>
     ELSE /\ CartRowsFree(u, w)
          /\ \A p \in CheckoutLocked(u) : ProductRowFree(p, w)
          /\ IF short # {}
             THEN /\ \E i \in short :
                       resp' = Reply(w, "Checkout", "InsufficientStock",
                                     items[i].product)
                  /\ UNCHANGED <<db, tx, locks, env>>
             ELSE IF Len(items) = 0
             THEN /\ resp' = Reply(w, "Checkout", "EmptyCart", 0)
                  /\ UNCHANGED <<db, tx, locks, env>>
             ELSE /\ tx' = [tx EXCEPT ![w] = [IdleTx EXCEPT !.pc = "c_balance",
                               !.op = "Checkout", !.user = u,
                               !.items = OrderLines(items),
                               !.total = SumTotal(items)]]
                  /\ clock' = [clock EXCEPT ![u] = w]
                  /\ plock' = [p \in Products |->
                                 IF p \in CheckoutLocked(u) THEN w ELSE plock[p]]
                  /\ resp' = NoResp
                  /\ UNCHANGED <<db, olock, wS, wX, rlock, env>>

\* if walletBalance < totalOrderCost then on-hold else processing
OrderStatusFor(walletBalance, totalOrderCost) ==
  IF walletBalance < totalOrderCost THEN "on-hold" ELSE "processing"

\* the stock UPDATEs without the test of orderStatus
StockDeductionsAlways(orderStatus, items) ==
  [p \in Products |-> SumQty(items, p)]

\* the stock UPDATEs of the item loop, as one decrement per product: they
\* run only if orderStatus == "processing"
StockDeductions(orderStatus, items) ==
  [p \in Products |-> IF orderStatus = "processing" THEN SumQty(items, p)
                      ELSE 0]

\* SELECT SUM(amount) (a shared locking read in a serializable transaction),
\* the solvency decision, then the INSERTs of the order and its items and the
\* stock UPDATEs, all on rows this transaction has locked
CheckoutBalance(w) ==
  LET u == tx[w].user
      walletBalance == GetWalletBalance(ledger, u)
      orderStatus == OrderStatusFor(walletBalance, tx[w].total)
  IN
  /\ tx[w].pc = "c_balance"
  /\ WalletSFree(u, w)
  /\ wS' = [wS EXCEPT ![u] = @ \cup {w}]
  /\ tx' = [tx EXCEPT ![w].status = orderStatus,
                      ![w].dec = StockDeductions(orderStatus, tx[w].items),
                      ![w].pc = IF orderStatus = "processing"
                                THEN "c_wallet" ELSE "c_commit"]
  /\ resp' = NoResp
  /\ UNCHANGED <<db, plock, clock, olock, wX, rlock, env>>

\* a commit whose stock UPDATEs are lost
CommitStockLost(w) == stock

\* what Commit does to products.stock_quantity: the transaction's UPDATEs
\* stock_quantity = stock_quantity - ? applied to the rows it holds locked
CommitStock(w) == [p \in Products |-> stock[p] - tx[w].dec[p]]

\* the rows a transaction has inserted into wallet_transactions; their note
\* names the order
DebitRows(w, oid) ==
  [i \in 1..Len(tx[w].debit) |-> [tx[w].debit[i] EXCEPT !.order = oid]]

\* AddWalletTransaction(tx, dropshipperID, "order", -totalOrderCost, ...) of a
\* paid order: SELECT SUM(amount) ... FOR UPDATE waits for the wallet rows,
\* then the INSERT
CheckoutWallet(w) ==
  LET u == tx[w].user IN
  /\ tx[w].pc = "c_wallet"
  /\ Len(ledger) + PendingDebits < MaxLedger
  /\ WalletXFree(u, w)
  /\ wX' = [wX EXCEPT ![u] = w]
  /\ tx' = [tx EXCEPT ![w].pc = "c_commit",
                      ![w].debit = <<AddWalletTransaction(ledger, u, "order",
                                                          -tx[w].total, 0)>>]
  /\ resp' = NoResp
  /\ UNCHANGED <<db, plock, clock, olock, wS, rlock, env>>

\* a commit that keeps the cart lines
ClearCartKept(u) == cart
\* DELETE FROM cart_items WHERE cart_id = ?: every line of u's cart goes
ClearCart(u) == [cart EXCEPT ![u] = EmptyCartOf]

\* DELETE FROM cart_items and tx.Commit(): the order and its items, the stock
\* UPDATEs and the ledger row become visible together.  Order ids are given
\* in commit order.
CheckoutCommit(w) ==
  LET u == tx[w].user
      orderID == Len(orders) + 1
  IN
  /\ tx[w].pc = "c_commit"
  /\ orders' = Append(orders, [user |-> u, status |-> tx[w].status,
                               total |-> tx[w].total,
                               items |-> tx[w].items])
  /\ stock' = CommitStock(w)
  /\ ledger' = ledger \o DebitRows(w, orderID)
  /\ cart' = ClearCart(u)
  /\ cartRows' = [cartRows EXCEPT ![u] = EmptyCartOf]
  /\ tx' = [tx EXCEPT ![w] = IdleTx]
  /\ ReleaseAll(w)
  /\ resp' = Reply(w, "Checkout", "Created", 0)
  /\ UNCHANGED <<hasCart, pstatus, fixed>>

\* ---- PayOrder -------------------------------------------------------------
\* the rows of: order_items JOIN products, a plain (non-locking) SELECT
ItemsToCheck(o) ==
  [i \in 1..Len(orders[o].items) |->
     [product |-> orders[o].items[i].product,
      quantity |-> orders[o].items[i].quantity,
      price |-> orders[o].items[i].unitPrice,
      stock |-> stock[orders[o].items[i].product]]]

\* a status test that refuses only the orders already paid
NotOnHoldPaidOnly(status) == status = "processing"
\* if status != "on-hold": the order cannot be paid
NotOnHold(status) == status # "on-hold"

\* a balance test that refuses only an empty wallet
InsufficientBalanceEmptyOnly(balance, totalAmount) == balance <= 0
\* if balance < totalAmount: the wallet does not cover the order
InsufficientBalance(balance, totalAmount) == balance < totalAmount

\* the orders query without AND user_id = ?
OrderOfUserAny(o, u) == TRUE
\* WHERE id = ? AND user_id = ?: the row is the caller's order
OrderOfUser(o, u) == orders[o].user = u

\* the total of the order's lines at the current prices of their products
OrderTotalRepriced(o) ==
  SumTotal([i \in 1..Len(orders[o].items) |->
              [price |-> price[orders[o].items[i].product],
               quantity |-> orders[o].items[i].quantity]])
\* SELECT total FROM orders WHERE id = ?: the total stored by Checkout
OrderTotal(o) == orders[o].total

\* a read of the order row that takes no lock
LockOrderRowSkipped(o, w) == olock
\* SELECT ... FROM orders WHERE id = ? ... FOR UPDATE: the transaction holds
\* the order row until it ends
LockOrderRow(o, w) == [olock EXCEPT ![o] = w]

\* Begin(), SELECT total, status FROM orders WHERE id = ? AND user_id = ? FOR
\* UPDATE and the status test; then GetWalletBalance(tx, ...) and the
\* order_items query, plain SELECTs of a REPEATABLE READ transaction that take
\* no lock and read one snapshot; then the two tests on what they returned.
\* Nothing can change the locked on-hold order, so the reads are taken in the
\* step that locks it.
PayOrderBegin(w, u, o) ==
  /\ tx[w].pc = "idle"
  /\ IF o > Len(orders)
     THEN /\ resp' = Reply(w, "PayOrder", "NotFound", 0)
          /\ UNCHANGED <<db, tx, locks, env>>
     ELSE LET balance == GetWalletBalance(ledger, u)
              itemsToCheck == ItemsToCheck(o)
              short == {i \in 1..Len(itemsToCheck) :
                          itemsToCheck[i].stock < itemsToCheck[i].quantity}
          IN
          /\ OrderRowFree(o, w)
          /\ IF ~OrderOfUser(o, u)
             THEN /\ resp' = Reply(w, "PayOrder", "NotFound", 0)
                  /\ UNCHANGED <<db, tx, locks, env>>
             ELSE IF NotOnHold(orders[o].status)
             THEN /\ resp' = Reply(w, "PayOrder", "InvalidState", 0)
                  /\ UNCHANGED <<db, tx, locks, env>>
             ELSE IF InsufficientBalance(balance, OrderTotal(o))
             THEN /\ resp' = Reply(w, "PayOrder", "InsufficientFunds", 0)
                  /\ UNCHANGED <<db, tx, locks, env>>
             ELSE IF short # {}
             THEN /\ resp' = Reply(w, "PayOrder", "OutOfStock",
                        itemsToCheck[CHOOSE j \in short :
                                       \A k \in short : j <= k].product)
                  /\ UNCHANGED <<db, tx, locks, env>>
             ELSE /\ tx' = [tx EXCEPT ![w] = [IdleTx EXCEPT !.pc = "p_stock",
                                 !.op = "PayOrder", !.user = u, !.oid = o,
                                 !.total = OrderTotal(o),
                                 !.items = OrderLines(itemsToCheck),
                                 !.idx = 1]]
                  /\ olock' = LockOrderRow(o, w)
                  /\ resp' = NoResp
                  /\ UNCHANGED <<db, plock, clock, wS, wX, rlock, env>>

\* UPDATE products SET stock_quantity = stock_quantity - ? for the next item:
\* it waits for the row lock and then holds it until the transaction ends
PayOrderStock(w) ==
  LET item == tx[w].items[tx[w].idx] IN
  /\ tx[w].pc = "p_stock"
  /\ ProductRowFree(item.product, w)
  /\ plock' = [plock EXCEPT ![item.product] = w]
  /\ tx' = [tx EXCEPT ![w].dec[item.product] = @ + item.quantity,
                      ![w].idx = @ + 1,
                      ![w].pc = IF tx[w].idx = Len(tx[w].items)
                                THEN "p_wallet" ELSE "p_stock"]
  /\ resp' = NoResp
  /\ UNCHANGED <<db, clock, olock, wS, wX, rlock, env>>

\* AddWalletTransaction(tx, dropshipperID, "order_payment", -totalAmount, ...):
\* SELECT SUM(amount) ... FOR UPDATE waits for the wallet rows, then the INSERT
PayOrderWallet(w) ==
  LET u == tx[w].user IN
  /\ tx[w].pc = "p_wallet"
  /\ Len(ledger) + PendingDebits < MaxLedger
  /\ WalletXFree(u, w)
  /\ wX' = [wX EXCEPT ![u] = w]
  /\ tx' = [tx EXCEPT ![w].pc = "p_commit",
                      ![w].debit = <<AddWalletTransaction(ledger, u,
                                        "order_payment", -tx[w].total, 0)>>]
  /\ resp' = NoResp
  /\ UNCHANGED <<db, plock, clock, olock, wS, rlock, env>>

\* an UPDATE that marks the paid order as shipped
PaidOrderShipped(o) == [orders EXCEPT ![o].status = "shipped"]
\* UPDATE orders SET status = 'processing', updated_at = ? WHERE id = ?
PaidOrder(o) == [orders EXCEPT ![o].status = "processing"]

\* UPDATE orders SET status = 'processing' and tx.Commit()
PayOrderCommit(w) ==
  /\ tx[w].pc = "p_commit"
  /\ orders' = PaidOrder(tx[w].oid)
  /\ stock' = CommitStock(w)
  /\ ledger' = ledger \o DebitRows(w, tx[w].oid)
  /\ tx' = [tx EXCEPT ![w] = IdleTx]
  /\ ReleaseAll(w)
  /\ resp' = Reply(w, "PayOrder", "OK", 0)
  /\ UNCHANGED <<hasCart, cart, cartRows, pstatus, fixed>>

\* ---- the catalogue: the supplier edits a product, the manager approves ----
\* the bodies of UpdateProduct requests for product p: status is omitted or
\* "pending"; simpleProduct (price, stock) is used for a simple product only.
\* A product with variants keeps its price_to_tts and stock_quantity.
UpdateProductInput(p) ==
  IF p \in scn.simple
  THEN [status : {pstatus[p], "pending"}, price : Prices,
        stock : 0..InitStock]
  ELSE [status : {"pending"}, price : {price[p]}, stock : {stock[p]}]

\* UpdateProduct: 403 if the product is published and simpleProduct.price
\* differs from price_to_tts; else UPDATE products SET status = ?,
\* price_to_tts = ?, stock_quantity = ? WHERE id = ?, which waits for the row
UpdateProduct(p) ==
  /\ ProductRowFree(p, None)
  /\ \E input \in UpdateProductInput(p) :
        /\ ~(pstatus[p] = "published" /\ input.price # price[p])
        /\ <<input.status, input.price, input.stock>>
              # <<pstatus[p], price[p], stock[p]>>
        /\ pstatus' = [pstatus EXCEPT ![p] = input.status]
        /\ price' = [price EXCEPT ![p] = input.price]
        /\ stock' = [stock EXCEPT ![p] = input.stock]
  /\ resp' = NoResp
  /\ UNCHANGED <<hasCart, cart, cartRows, orders, ledger, tx, locks, env>>

\* ApproveProduct: SELECT ... WHERE id = ? AND status = 'pending' FOR UPDATE,
\* then UPDATE products SET status = 'published'
ApproveProduct(p) ==
  /\ ProductRowFree(p, None)
  /\ pstatus[p] = "pending"
  /\ pstatus' = [pstatus EXCEPT ![p] = "published"]
  /\ resp' = NoResp
  /\ UNCHANGED <<stock, price, hasCart, cart, cartRows, orders, ledger, tx, locks, env>>

\* ---- fulfilment, completion and the overdue sweeper ----------------------
\* the supplier acknowledges fulfilment: a processing order becomes shipped;
\* the transition locks the order row and re-reads the status inside the lock
UpdateOrderTracking(o) ==
  /\ o <= Len(orders)
  /\ OrderRowFree(o, None)
  /\ orders[o].status = "processing"
  /\ orders' = [orders EXCEPT ![o].status = "shipped"]
  /\ resp' = NoResp
  /\ UNCHANGED <<stock, hasCart, cart, cartRows, ledger, tx, locks, pstatus, fixed>>

\* the buyer acknowledges receipt: a shipped order becomes completed
CompleteOrder(o) ==
  /\ o <= Len(orders)
  /\ OrderRowFree(o, None)
  /\ orders[o].status = "shipped"
  /\ orders' = [orders EXCEPT ![o].status = "completed"]
  /\ resp' = NoResp
  /\ UNCHANGED <<stock, hasCart, cart, cartRows, ledger, tx, locks, pstatus, fixed>>

\* time passes: the hold deadline of an unpaid order elapses
DeadlinePasses(o) ==
  /\ o <= Len(orders)
  /\ o \notin overdue
  /\ orders[o].status = "on-hold"
  /\ overdue' = overdue \cup {o}
  /\ resp' = NoResp
  /\ UNCHANGED <<db, tx, locks, scn, withdrawals>>

\* one transaction of a sweep: an on-hold order older than the deadline is
\* set to cancelled, under the lock of its row; nothing else is written
ProcessOverdueOrders(o) ==
  /\ o <= Len(orders)
  /\ o \in overdue
  /\ OrderRowFree(o, None)
  /\ orders[o].status = "on-hold"
  /\ orders' = [orders EXCEPT ![o].status = "cancelled"]
  /\ resp' = NoResp
  /\ UNCHANGED <<stock, hasCart, cart, cartRows, ledger, tx, locks, pstatus, fixed>>

\* a background worker whose sweep looks at the oldest order only
SweeperTickFirstOnly(o) == o = 1 /\ ProcessOverdueOrders(o)
\* the background worker of main: every tick of its ticker runs a sweep
SweeperTick(o) == ProcessOverdueOrders(o)

\* ---- withdrawals: the supplier requests, the manager decides --------------
PendingRequests == Cardinality({w \in Procs : tx[w].op = "RequestWithdrawal"})

\* RequestWithdrawal: Begin(), GetWalletBalance(tx, supplierID), a plain SELECT
\* SUM(amount) that takes no lock, and the test availableBalance < input.Amount
\* (409); then the INSERT INTO withdrawal_requests with status 'pending'
RequestWithdrawalBegin(w, u, amt) ==
  /\ tx[w].pc = "idle"
  /\ Len(withdrawals) + PendingRequests < MaxWithdrawals
  /\ LET availableBalance == GetWalletBalance(ledger, u) IN
     IF availableBalance < amt
     THEN /\ resp' = Reply(w, "RequestWithdrawal", "InsufficientFunds", 0)
          /\ UNCHANGED <<db, tx, locks, env>>
     ELSE /\ tx' = [tx EXCEPT ![w] = [IdleTx EXCEPT !.pc = "r_wallet",
                         !.op = "RequestWithdrawal", !.user = u,
                         !.amount = amt]]
          /\ resp' = NoResp
          /\ UNCHANGED <<db, locks, env>>

\* AddWalletTransaction(tx, supplierID, "withdrawal", -input.Amount, details):
\* SELECT SUM(amount) ... FOR UPDATE waits for the wallet rows, then the INSERT
RequestWithdrawalWallet(w) ==
  LET u == tx[w].user IN
  /\ tx[w].pc = "r_wallet"
  /\ Len(ledger) + PendingDebits < MaxLedger
  /\ WalletXFree(u, w)
  /\ wX' = [wX EXCEPT ![u] = w]
  /\ tx' = [tx EXCEPT ![w].pc = "r_commit",
                      ![w].debit = <<AddWalletTransaction(ledger, u,
                                        "withdrawal", -tx[w].amount, 0)>>]
  /\ resp' = NoResp
  /\ UNCHANGED <<db, plock, clock, olock, wS, rlock, env>>

\* a write that puts the row in the place of the wallet's newest row
InsertRowsOverNewest(l, rows) ==
  [i \in 1..Len(l) |-> IF i = Len(l) /\ rows # <<>> THEN rows[1] ELSE l[i]]
\* INSERT INTO wallet_transactions: the committed rows follow the rows the
\* table holds, which stay as they are
InsertRows(l, rows) == l \o rows

\* tx.Commit() and 201: the request row and the debit become visible
RequestWithdrawalCommit(w) ==
  /\ tx[w].pc = "r_commit"
  /\ withdrawals' = Append(withdrawals, [user |-> tx[w].user,
                                          amount |-> tx[w].amount,
                                          status |-> "pending"])
  /\ ledger' = InsertRows(ledger, DebitRows(w, 0))
  /\ tx' = [tx EXCEPT ![w] = IdleTx]
  /\ ReleaseAll(w)
  /\ resp' = Reply(w, "RequestWithdrawal", "Created", 0)
  /\ UNCHANGED <<stock, price, pstatus, hasCart, cart, cartRows, orders,
                 overdue, scn>>

\* the withdrawal_requests read without FOR UPDATE: it never waits
RequestRowFreeNoLock(r, w) == TRUE
\* SELECT ... FROM withdrawal_requests WHERE id = ? FOR UPDATE can read the row
RequestRowFree(r, w) == Free(rlock[r], w)

\* the request body: action is approve or reject
WithdrawalActions == {"approve", "reject"}

\* ProcessWithdrawalRequest: Begin(), SELECT id, user_id, amount, status FROM
\* withdrawal_requests WHERE id = ? FOR UPDATE (404 if there is no row), the
\* test status != "pending" (409), then UPDATE withdrawal_requests SET status
ProcessWithdrawalRequestBegin(w, r, action) ==
  /\ tx[w].pc = "idle"
  /\ IF r > Len(withdrawals)
     THEN /\ resp' = Reply(w, "ProcessWithdrawalRequest", "NotFound", 0)
          /\ UNCHANGED <<db, tx, locks, env>>
     ELSE /\ RequestRowFree(r, w)
          /\ IF withdrawals[r].status # "pending"
             THEN /\ resp' = Reply(w, "ProcessWithdrawalRequest",
                                   "AlreadyProcessed", 0)
                  /\ UNCHANGED <<db, tx, locks, env>>
             ELSE /\ tx' = [tx EXCEPT ![w] = [IdleTx EXCEPT
                                 !.pc = IF action = "approve"
                                        THEN "w_commit" ELSE "w_refund",
                                 !.op = "ProcessWithdrawalRequest",
                                 !.user = withdrawals[r].user,
                                 !.amount = withdrawals[r].amount,
                                 !.rid = r, !.action = action]]
                  /\ rlock' = [rlock EXCEPT ![r] = w]
                  /\ resp' = NoResp
                  /\ UNCHANGED <<db, plock, clock, olock, wS, wX, env>>

\* the reject branch: AddWalletTransaction(tx, req.UserID, "refund",
\* req.Amount, details) gives the held amount back
ProcessWithdrawalRequestRefund(w) ==
  LET u == tx[w].user IN
  /\ tx[w].pc = "w_refund"
  /\ Len(ledger) + PendingDebits < MaxLedger
  /\ WalletXFree(u, w)
  /\ wX' = [wX EXCEPT ![u] = w]
  /\ tx' = [tx EXCEPT ![w].pc = "w_commit",
                      ![w].debit = <<AddWalletTransaction(ledger, u,
                                        "refund", tx[w].amount, 0)>>]
  /\ resp' = NoResp
  /\ UNCHANGED <<db, plock, clock, olock, wS, rlock, env>>

\* the status the UPDATE of the request row writes
ProcessedStatus(action) == IF action = "approve" THEN "approved" ELSE "rejected"

\* tx.Commit() and 200
ProcessWithdrawalRequestCommit(w) ==
  /\ tx[w].pc = "w_commit"
  /\ withdrawals' = [withdrawals EXCEPT
                       ![tx[w].rid].status = ProcessedStatus(tx[w].action)]
  /\ ledger' = InsertRows(ledger, DebitRows(w, 0))
  /\ tx' = [tx EXCEPT ![w] = IdleTx]
  /\ ReleaseAll(w)
  /\ resp' = Reply(w, "ProcessWithdrawalRequest", "OK", 0)
  /\ UNCHANGED <<stock, price, pstatus, hasCart, cart, cartRows, orders,
                 overdue, scn>>

\* ---- failure of a statement ----------------------------------------------
\* any tx.Query / tx.Exec / tx.Commit of a running handler may return an error
\* (lock wait timeout, deadlock victim, lost connection): the handler answers
\* 500 and the deferred Rollback runs
Fail(w) ==
  /\ Running(w)
  /\ Rollback(w, "ServerError", 0)

Next ==
  \/ \E u \in scn.users, amt \in 1..MaxTopUp : ManualTopUp(u, amt)
  \/ \E u \in scn.users, p \in Products, v \in scn.variants \cup {NoVariant},
        q \in 1..MaxQty : AddToCart(u, p, v, q)
  \/ \E w \in scn.procs, u \in scn.users : CheckoutBegin(w, u)
  \/ \E w \in scn.procs : CheckoutBalance(w)
  \/ \E w \in scn.procs : CheckoutWallet(w)
  \/ \E w \in scn.procs : CheckoutCommit(w)
  \/ \E w \in scn.procs, u \in scn.users, o \in OrderIds :
        PayOrderBegin(w, u, o)
  \/ \E w \in scn.procs : PayOrderStock(w)
  \/ \E w \in scn.procs : PayOrderWallet(w)
  \/ \E w \in scn.procs : PayOrderCommit(w)
  \/ \E w \in scn.procs : Fail(w)
  \/ \E p \in scn.edited : UpdateProduct(p)
  \/ \E p \in scn.edited : ApproveProduct(p)
  \/ \E o \in scn.tracked : UpdateOrderTracking(o)
  \/ \E o \in scn.tracked : CompleteOrder(o)
  \/ \E o \in scn.tracked : DeadlinePasses(o)
  \/ \E o \in scn.tracked : SweeperTick(o)

Spec == Init /\ [][Next]_vars
SpecOneWorker == InitOneWorker /\ [][Next]_vars
SpecTwoUsers == InitTwoUsers /\ [][Next]_vars
SpecLifecycle == InitLifecycle /\ [][Next]_vars
SpecCatalog == InitCatalog /\ [][Next]_vars

\* the next statement of the handler worker w is running: it returns, with a
\* result or with an error
TxStep(w) ==
  \/ CheckoutBalance(w) \/ CheckoutWallet(w) \/ CheckoutCommit(w)
  \/ PayOrderStock(w) \/ PayOrderWallet(w) \/ PayOrderCommit(w)
  \/ Fail(w)

\* the lifecycle scenario with its scheduling: a running handler goes on to
\* its next statement, and the ticker of the background worker keeps firing,
\* so that a sweep that finds the order row free again and again gets it
SpecSweeper ==
  /\ InitLifecycle
  /\ [][Next]_vars
  /\ \A w \in Procs : WF_vars(TxStep(w))
  /\ \A o \in OrderIds : SF_vars(SweeperTick(o))

\* two workers serve the requests of one user, who buys one variant of
\* product 1
Contention == [procs |-> Procs, users |-> {"u1"}, variants |-> {1},
               cartQty |-> MaxCartQty, tracked |-> {1}, edited |-> {1},
               simple |-> {}]
InitContention == InitFor(Contention)

\* the concurrent scenario with its scheduling: the statement a running
\* handler is at returns, with its result once the locks it needs are free or
\* with the error the database gives a statement that waited too long
SpecFair ==
  /\ InitContention
  /\ [][Next]_vars
  /\ \A w \in Procs : WF_vars(TxStep(w))

\* ---- the wallet on its own ---------------------------------------------------
\* two workers serve the withdrawal routes for one supplier, whose wallet the
\* manager credits; nothing is bought
Payouts == [procs |-> Procs, users |-> {"u1"}, variants |-> {},
            cartQty |-> MaxCartQty, tracked |-> {}, edited |-> {},
            simple |-> {}]
InitPayouts == InitFor(Payouts)

\* the withdrawal routes: a supplier requests, a manager approves or rejects
WithdrawalNext ==
  \/ \E w \in scn.procs, u \in scn.users, amt \in 1..MaxWithdrawal :
        RequestWithdrawalBegin(w, u, amt)
  \/ \E w \in scn.procs : RequestWithdrawalWallet(w)
  \/ \E w \in scn.procs : RequestWithdrawalCommit(w)
  \/ \E w \in scn.procs, r \in WithdrawalIds, action \in WithdrawalActions :
        ProcessWithdrawalRequestBegin(w, r, action)
  \/ \E w \in scn.procs : ProcessWithdrawalRequestRefund(w)
  \/ \E w \in scn.procs : ProcessWithdrawalRequestCommit(w)

NextPayouts ==
  \/ \E u \in scn.users, amt \in 1..MaxTopUp : ManualTopUp(u, amt)
  \/ WithdrawalNext
  \/ \E w \in scn.procs : Fail(w)

SpecPayouts == InitPayouts /\ [][NextPayouts]_vars

\* one worker serves every route for one user, who buys one variant of product
\* 1 and asks for withdrawals from the same wallet
Books == [procs |-> {"w1"}, users |-> {"u1"}, variants |-> {1},
          cartQty |-> MaxCartQty, tracked |-> {1}, edited |-> {1},
          simple |-> {}]
InitBooks == InitFor(Books)

NextBooks == Next \/ WithdrawalNext

SpecBooks == InitBooks /\ [][NextBooks]_vars

\* wallet_transactions.type as the handlers write it
LedgerKinds == {"topup", "order", "order_payment", "withdrawal", "refund"}
\* the types that take money out of a wallet after checkout
DebitKinds == {"order_payment", "withdrawal"}

\* a call of the write primitive by any caller inside a transaction: any type
\* and any signed amount
RecordMovement(u, kind, amount) ==
  /\ Len(ledger) < MaxLedger
  /\ ledger' = Append(ledger, AddWalletTransaction(ledger, u, kind, amount, 0))
  /\ resp' = NoResp
  /\ UNCHANGED <<stock, hasCart, cart, cartRows, orders, tx, locks, pstatus,
                 fixed>>

NextRecord ==
  \E u \in scn.users, kind \in LedgerKinds, amount \in -MaxTopUp..MaxTopUp :
     RecordMovement(u, kind, amount)

SpecRecord == InitPayouts /\ [][NextRecord]_vars

\* ---- properties ------------------------------------------------------------
PaymentKinds == {"order", "order_payment"}
PaidStatuses == {"processing", "shipped", "completed"}
UnpaidStatuses == {"on-hold", "cancelled"}

\* the ledger rows that pay order o (their note names it)
PaymentsFor(o) ==
  {j \in 1..Len(ledger) : ledger[j].kind \in PaymentKinds /\ ledger[j].order = o}

RECURSIVE SoldQty(_, _)
\* units of product p on the lines of the paid orders among the first n orders
SoldQty(n, p) ==
  IF n = 0 THEN 0
  ELSE (IF orders[n].status \in PaidStatuses THEN SumQty(orders[n].items, p)
        ELSE 0) + SoldQty(n - 1, p)

\* C1: every committed order is either unpaid (on-hold, or cancelled by the
\* sweeper without ever having been paid; no payment row in the
\* ledger, no stock taken for it) or paid (processing or later, exactly one
\* payment row of -total, the quantity of each of its lines taken from stock
\* exactly once); the stock of a product is its initial stock minus the lines
\* of the paid orders and of nothing else.
OrderAllOrNothing ==
  /\ \A o \in 1..Len(orders) :
       \/ /\ orders[o].status \in UnpaidStatuses
          /\ PaymentsFor(o) = {}
       \/ /\ orders[o].status \in PaidStatuses
          /\ Cardinality(PaymentsFor(o)) = 1
          /\ \A j \in PaymentsFor(o) : ledger[j].amount = -orders[o].total
  /\ \A p \in Products : stock[p] = InitStock - SoldQty(Len(orders), p)

OrderAllOrNothingWitness ==
  \E o1, o2 \in 1..Len(orders) :
     /\ orders[o1].status = "on-hold"
     /\ orders[o2].status = "processing"
     /\ PaymentsFor(o2) # {}

\* C2: the stock of every product is never negative.
StockNonNegative == \A p \in Products : stock[p] >= 0

\* C3: an order payment is committed only onto a balance that covers the
\* order total, so the balance after every order payment is not negative.
DebitsSolvent ==
  \A j \in 1..Len(ledger) :
     ledger[j].kind \in PaymentKinds => ledger[j].balanceAfter >= 0

\* C4: PayOrder on one order is exclusive and happens once: a running PayOrder
\* holds the order row, the committed order is still on-hold and unpaid, no
\* other worker runs PayOrder on the same order, and no order ever has two
\* payment rows.
PayOrderExactlyOnce ==
  /\ \A w \in Procs : tx[w].op = "PayOrder" =>
        /\ olock[tx[w].oid] = w
        /\ orders[tx[w].oid].status = "on-hold"
        /\ PaymentsFor(tx[w].oid) = {}
        /\ \A w2 \in Procs \ {w} :
              tx[w2].op = "PayOrder" => tx[w2].oid # tx[w].oid
  /\ \A o \in 1..Len(orders) : Cardinality(PaymentsFor(o)) <= 1

PayOrderExactlyOnceWitness ==
  \E o \in 1..Len(orders) :
     /\ orders[o].status = "processing"
     /\ \E j \in PaymentsFor(o) : ledger[j].kind = "order_payment"
     /\ resp = Reply(None, "PayOrder", "InvalidState", 0)

\* C5: Checkout of one cart is exclusive: a running Checkout holds the rows of
\* the user's cart, the lines it will turn into an order are exactly the
\* committed cart's, and no other worker runs Checkout for the same user.
CheckoutExclusive ==
  \A w \in Procs : tx[w].op = "Checkout" =>
     /\ clock[tx[w].user] = w
     /\ tx[w].items = OrderLines(CartItemRows(tx[w].user))
     /\ \A w2 \in Procs \ {w} :
           tx[w2].op = "Checkout" => tx[w2].user # tx[w].user

CheckoutExclusiveWitness ==
  /\ resp = Reply(None, "Checkout", "EmptyCart", 0)
  /\ Len(orders) = 1 /\ orders[1].status = "processing"
  /\ Cardinality(PaymentsFor(1)) = 1

\* C6: a Checkout that answers with an error leaves orders, order lines,
\* ledger, stock and cart as they were.
CheckoutFailureStep ==
  /\ resp'.op = "Checkout"
  /\ resp'.code # "Created"
CheckoutAtomic ==
  [][CheckoutFailureStep =>
       UNCHANGED <<orders, ledger, stock, cart, hasCart>>]_vars

CheckoutAtomicWitness ==
  /\ resp = Reply(None, "Checkout", "ServerError", 0)
  /\ \E u \in Users : CartLines(cart[u]) # {}

\* C7: balance_after of every ledger row is the sum of the user's amounts up
\* to and including that row; GetWalletBalance returns the balance_after of
\* the user's latest row, and 0 for a user without rows.
UserRows(u) == {j \in 1..Len(ledger) : ledger[j].user = u}
LastRow(u) == CHOOSE j \in UserRows(u) : \A k \in UserRows(u) : k <= j
BalanceChain ==
  /\ \A j \in 1..Len(ledger) :
        ledger[j].balanceAfter = SumAmount(SubSeq(ledger, 1, j), ledger[j].user)
  /\ \A u \in Users :
        GetWalletBalance(ledger, u) =
           IF UserRows(u) = {} THEN 0 ELSE ledger[LastRow(u)].balanceAfter

BalanceChainWitness ==
  /\ Len(ledger) >= 3
  /\ \E j \in 1..Len(ledger) : ledger[j].kind = "order_payment"
  /\ \E j \in 1..Len(ledger) : ledger[j].kind = "order"

\* a step in which Checkout answers 201: it has committed a new order
CheckoutCreated ==
  /\ resp'.op = "Checkout" /\ resp'.code = "Created"
  /\ Len(orders') = Len(orders) + 1
NewOrder == orders'[Len(orders')]

RECURSIVE CartQtySeq(_, _, _)
CartQtySeq(keys, c, p) ==
  IF keys = <<>> THEN 0
  ELSE (IF Head(keys)[1] = p THEN c[Head(keys)] ELSE 0)
       + CartQtySeq(Tail(keys), c, p)
\* units of product p on the lines of cart c
CartQty(c, p) == CartQtySeq(KeySeq, c, p)

\* C8: a Checkout by a user whose balance covers the cart total creates the
\* order in processing, takes every line's cart quantity from stock, appends
\* exactly one order_payment row of -total (balance becomes balance - total)
\* and leaves the cart empty.
CheckoutSolvent ==
  [][CheckoutCreated =>
       LET u == NewOrder.user
           balance == GetWalletBalance(ledger, u)
           total == SumTotal(CartItemRows(u))
       IN balance >= total =>
            /\ NewOrder.status = "processing"
            /\ NewOrder.total = total
            /\ \A p \in Products : stock'[p] = stock[p] - CartQty(cart[u], p)
            /\ ledger' = Append(ledger,
                  [user |-> u, kind |-> "order_payment", amount |-> -total,
                   balanceAfter |-> balance - total, order |-> Len(orders')])
            /\ CartLines(cart'[u]) = {}]_vars

\* C9: a Checkout by a user whose balance is below the cart total creates the
\* order on-hold with the cart's lines at their current prices, changes no
\* stock and no ledger row, and leaves the cart empty.
CheckoutInsolvent ==
  [][CheckoutCreated =>
       LET u == NewOrder.user
           balance == GetWalletBalance(ledger, u)
           total == SumTotal(CartItemRows(u))
       IN balance < total =>
            /\ NewOrder.status = "on-hold"
            /\ NewOrder.total = total
            /\ NewOrder.items = OrderLines(CartItemRows(u))
            /\ stock' = stock
            /\ ledger' = ledger
            /\ CartLines(cart'[u]) = {}]_vars

CheckoutInsolventWitness ==
  /\ resp = Reply(None, "Checkout", "Created", 0)
  /\ Len(orders) > 0
  /\ orders[Len(orders)].status = "on-hold"
  /\ \E u \in Users : GetWalletBalance(ledger, u) > 0

\* a step in which PayOrder answers 200
PayOrderOK ==
  /\ resp'.op = "PayOrder" /\ resp'.code = "OK"
  /\ <<orders, ledger, stock>>' # <<orders, ledger, stock>>
\* a step in which PayOrder refuses for lack of funds or of stock
PayOrderRefused ==
  /\ resp'.op = "PayOrder"
  /\ resp'.code \in {"InsufficientFunds", "OutOfStock"}
\* order o can be paid: balance covers its total, stock covers every line
Payable(o) ==
  /\ GetWalletBalance(ledger, orders[o].user) >= orders[o].total
  /\ \A i \in 1..Len(orders[o].items) :
        orders[o].items[i].quantity <= stock[orders[o].items[i].product]

\* C10: a successful PayOrder turns one on-hold order to processing, takes the
\* quantity of each of its lines from stock and appends one order_payment row
\* of -total (balance becomes balance - total), all in one step; PayOrder
\* refuses for funds or stock only if some on-hold order is not payable.
PayOrderSuccess ==
  [][/\ PayOrderOK =>
          \E o \in 1..Len(orders) :
             LET u == orders[o].user
                 balance == GetWalletBalance(ledger, u)
             IN /\ orders[o].status = "on-hold"
                /\ orders' = [orders EXCEPT ![o].status = "processing"]
                /\ stock' = [p \in Products |->
                               stock[p] - SumQty(orders[o].items, p)]
                /\ ledger' = Append(ledger,
                      [user |-> u, kind |-> "order_payment",
                       amount |-> -orders[o].total,
                       balanceAfter |-> balance - orders[o].total,
                       order |-> o])
     /\ PayOrderRefused =>
          /\ UNCHANGED <<orders, ledger, stock>>
          /\ \E o \in 1..Len(orders) :
                orders[o].status = "on-hold" /\ ~Payable(o)]_vars

PayOrderSuccessWitness ==
  /\ resp = Reply(None, "PayOrder", "OK", 0)
  /\ \E o \in 1..Len(orders) :
        /\ orders[o].status = "processing"
        /\ \E j \in PaymentsFor(o) :
              ledger[j].kind = "order_payment" /\ ledger[j].balanceAfter >= 0

\* C11: PayOrder by the owner on an order that is not on-hold answers
\* InvalidState and leaves orders, stock and ledger as they were; no PayOrder
\* ever runs past the status test on such an order, and no step turns a
\* shipped, completed or cancelled order into processing.
PayOrderNotOnHold ==
  [][/\ \A w \in Procs, u \in Users, o \in 1..Len(orders) :
          (/\ orders[o].user = u
           /\ orders[o].status # "on-hold"
           /\ PayOrderBegin(w, u, o))
          => /\ resp' = Reply(w, "PayOrder", "InvalidState", 0)
             /\ tx'[w] = IdleTx
             /\ UNCHANGED <<orders, stock, ledger>>
     /\ \A w \in Procs :
          tx'[w].op = "PayOrder" => orders'[tx'[w].oid].status = "on-hold"
     /\ \A o \in 1..Len(orders) :
          orders[o].status \in {"shipped", "completed", "cancelled"}
          => orders'[o].status # "processing"]_vars

PayOrderNotOnHoldWitness ==
  /\ resp = Reply(None, "PayOrder", "InvalidState", 0)
  /\ Len(orders) = 1
  /\ orders[1].status = "cancelled"

\* the lines of order o whose quantity exceeds the stock of their product
ShortLines(o) ==
  {i \in 1..Len(orders[o].items) :
     orders[o].items[i].quantity > stock[orders[o].items[i].product]}

\* C12: PayOrder by the owner on an on-hold order whose total exceeds the
\* balance, or one of whose lines exceeds the stock, answers InsufficientFunds
\* (only if the balance is short) or OutOfStock (only if a line is short, which
\* it names) and writes nothing; a PayOrder gets past the two tests only if
\* both passed, and a refusal leaves orders, stock and ledger as they were.
PayOrderRefusal ==
  [][/\ \A w \in Procs, u \in Users, o \in 1..Len(orders) :
          (/\ orders[o].user = u
           /\ orders[o].status = "on-hold"
           /\ ~Payable(o)
           /\ PayOrderBegin(w, u, o))
          => /\ resp'.op = "PayOrder"
             /\ resp'.code \in {"InsufficientFunds", "OutOfStock"}
             /\ resp'.code = "InsufficientFunds" =>
                   GetWalletBalance(ledger, u) < orders[o].total
             /\ resp'.code = "OutOfStock" =>
                   \E i \in ShortLines(o) :
                      resp'.product = orders[o].items[i].product
             /\ tx'[w] = IdleTx
             /\ UNCHANGED <<orders, stock, ledger>>
     /\ \A w \in Procs :
          (tx[w].pc = "idle" /\ tx'[w].op = "PayOrder") => Payable(tx'[w].oid)
     /\ PayOrderRefused => UNCHANGED <<orders, stock, ledger>>]_vars

PayOrderRefusalWitness ==
  /\ resp = Reply(None, "PayOrder", "OutOfStock", 1)
  /\ \E o \in 1..Len(orders) :
        /\ orders[o].status = "on-hold"
        /\ GetWalletBalance(ledger, orders[o].user) >= orders[o].total
        /\ ShortLines(o) # {}

\* C13: PayOrder on an order of another user answers NotFound and leaves
\* orders, stock and every ledger as they were; a running PayOrder is always
\* the owner's, and every payment row is in the ledger of the order's owner.
PayOrderNotOwner ==
  [][/\ \A w \in Procs, u \in Users, o \in 1..Len(orders) :
          (orders[o].user # u /\ PayOrderBegin(w, u, o))
          => /\ resp' = Reply(w, "PayOrder", "NotFound", 0)
             /\ tx'[w] = IdleTx
             /\ UNCHANGED <<orders, stock, ledger>>
     /\ \A w \in Procs :
          tx'[w].op = "PayOrder" => orders'[tx'[w].oid].user = tx'[w].user
     /\ \A j \in 1..Len(ledger') :
          ledger'[j].kind \in PaymentKinds
          => ledger'[j].user = orders'[ledger'[j].order].user]_vars

PayOrderNotOwnerWitness ==
  /\ resp = Reply(None, "PayOrder", "NotFound", 0)
  /\ Len(orders) = MaxOrders
  /\ \A o \in 1..Len(orders) :
        /\ orders[o].user = "u1"
        /\ orders[o].status = "on-hold"
        /\ GetWalletBalance(ledger, "u2") >= orders[o].total

\* the lines of u's cart whose quantity exceeds the stock of their product
ShortCartLines(u) == {k \in CartLines(cart[u]) : cart[u][k] > stock[k[1]]}

\* C14: a Checkout of a cart one of whose lines exceeds the stock of its
\* product answers InsufficientStock naming the product of such a line and
\* creates nothing, whatever the balance; no order is ever created from a cart
\* that holds such a line.
CheckoutShortLine ==
  [][/\ \A w \in Procs, u \in Users :
          (/\ hasCart[u]
           /\ ShortCartLines(u) # {}
           /\ CheckoutBegin(w, u))
          => /\ resp'.op = "Checkout"
             /\ resp'.code = "InsufficientStock"
             /\ \E k \in ShortCartLines(u) : resp'.product = k[1]
             /\ tx'[w] = IdleTx
             /\ UNCHANGED <<orders, ledger, stock, cart>>
     /\ CheckoutCreated => ShortCartLines(NewOrder.user) = {}]_vars

\* C15: a Checkout for a user without a cart, or whose cart has no lines,
\* answers EmptyCart and changes no order, ledger row, stock or cart; a
\* committed Checkout started from a cart with lines and leaves the cart
\* without lines, so repeating it creates no second order and no second debit.
CheckoutEmptyCart ==
  [][/\ \A w \in Procs, u \in Users :
          (/\ ~hasCart[u] \/ CartLines(cart[u]) = {}
           /\ CheckoutBegin(w, u))
          => /\ resp'.op = "Checkout"
             /\ resp'.code = "EmptyCart"
             /\ tx'[w] = IdleTx
             /\ UNCHANGED <<orders, ledger, stock, cart>>
     /\ CheckoutCreated =>
          /\ CartLines(cart[NewOrder.user]) # {}
          /\ NewOrder.items # <<>>
          /\ CartLines(cart'[NewOrder.user]) = {}]_vars

CheckoutEmptyCartWitness ==
  /\ resp = Reply(None, "Checkout", "EmptyCart", 0)
  /\ \E u \in Users :
        /\ hasCart[u]
        /\ CartLines(cart[u]) = {}
        /\ \E o \in 1..Len(orders) : orders[o].user = u
        /\ \A v \in Users \ {u} : \A o \in 1..Len(orders) : orders[o].user # v
        /\ Cardinality({j \in 1..Len(ledger) : ledger[j].amount < 0}) = 1
        /\ Len(orders) = 1

\* C16: the unit price of each line of a new order is the price of its
\* product at the commit of the Checkout that holds the product row locked;
\* no step changes the lines or the total of an existing order, whatever
\* happens to the prices; PayOrder tests the balance against the stored total
\* and debits exactly the stored total.
OrderPriceFrozen ==
  [][/\ CheckoutCreated =>
          \A i \in 1..Len(NewOrder.items) :
             NewOrder.items[i].unitPrice = price[NewOrder.items[i].product]
     /\ \A o \in 1..Len(orders) :
          /\ orders'[o].items = orders[o].items
          /\ orders'[o].total = orders[o].total
     /\ \A w \in Procs, u \in Users, o \in 1..Len(orders) :
          (/\ orders[o].user = u
           /\ orders[o].status = "on-hold"
           /\ PayOrderBegin(w, u, o))
          => (resp'.code = "InsufficientFunds"
                <=> GetWalletBalance(ledger, u) < orders[o].total)
     /\ PayOrderOK =>
          \E o \in 1..Len(orders) :
             /\ orders[o].status = "on-hold"
             /\ orders'[o].status = "processing"
             /\ Len(ledger') = Len(ledger) + 1
             /\ ledger'[Len(ledger')].order = o
             /\ ledger'[Len(ledger')].amount = -orders[o].total]_vars

\* an order paid by PayOrder whose line was priced at checkout at a price the
\* product no longer has
OrderPriceFrozenWitness ==
  /\ resp = Reply(None, "PayOrder", "OK", 0)
  /\ \E o \in 1..Len(orders) :
        /\ orders[o].status = "processing"
        /\ \E i \in 1..Len(orders[o].items) :
              orders[o].items[i].unitPrice # price[orders[o].items[i].product]
        /\ \E j \in 1..Len(ledger) :
              /\ ledger[j].kind = "order_payment"
              /\ ledger[j].order = o
              /\ ledger[j].amount = -orders[o].total

\* C17: Checkout treats a cart line with a variant by the variant's row: a
\* line whose quantity the variant's stock covers is not refused for stock,
\* its order line is priced at the variant's price and records the variant,
\* and the stock of the base product is not what a paid order takes.
CheckoutVariantLines ==
  [][/\ \A w \in Procs, u \in Users :
          (/\ hasCart[u]
           /\ CartLines(cart[u]) # {}
           /\ \A k \in CartLines(cart[u]) :
                 k[2] # NoVariant /\ cart[u][k] <= VariantStock
           /\ CheckoutBegin(w, u))
          => resp'.code # "InsufficientStock"
     /\ CheckoutCreated =>
          \A k \in CartLines(cart[NewOrder.user]) :
             k[2] # NoVariant =>
               /\ \E i \in 1..Len(NewOrder.items) :
                     /\ "variant" \in DOMAIN NewOrder.items[i]
                     /\ NewOrder.items[i].variant = k[2]
                     /\ NewOrder.items[i].product = k[1]
                     /\ NewOrder.items[i].quantity = cart[NewOrder.user][k]
                     /\ NewOrder.items[i].unitPrice = VariantPrice(k[2])
               /\ stock'[k[1]] = stock[k[1]]]_vars

\* the transitions of an order's status
StatusEdges == {<<"on-hold", "processing">>, <<"processing", "shipped">>,
                <<"shipped", "completed">>, <<"on-hold", "cancelled">>}

\* C18: every step keeps the orders it finds, with their user, and moves the
\* status of each along the edges on-hold -> processing -> shipped ->
\* completed and on-hold -> cancelled only; a step adds at most one order,
\* which starts on-hold if the balance is below its total and processing
\* otherwise.
OrderStatusEdges ==
  [][/\ Len(orders') \in {Len(orders), Len(orders) + 1}
     /\ \A o \in 1..Len(orders) :
          /\ orders'[o].user = orders[o].user
          /\ \/ orders'[o].status = orders[o].status
             \/ <<orders[o].status, orders'[o].status>> \in StatusEdges
     /\ Len(orders') = Len(orders) + 1 =>
          NewOrder.status =
            IF GetWalletBalance(ledger, NewOrder.user) < NewOrder.total
            THEN "on-hold" ELSE "processing"]_vars

\* one order went all the way to completed after a late payment, another one
\* was cancelled
OrderStatusEdgesWitness ==
  /\ Len(orders) = 2
  /\ \E o \in 1..2 :
        /\ orders[o].status = "completed"
        /\ \E j \in 1..Len(ledger) :
              ledger[j].kind = "order_payment" /\ ledger[j].order = o
  /\ \E o \in 1..2 : orders[o].status = "cancelled"

\* C19: an on-hold order whose deadline has passed does not stay on-hold: the
\* sweeper cancels it unless it is paid first, each order on its own; the step
\* of the sweeper sets the status of that one order and changes neither the
\* ledger nor the stock.
SweeperCancels ==
  /\ [][\A o \in OrderIds :
          SweeperTick(o) =>
             /\ orders[o].status = "on-hold"
             /\ orders' = [orders EXCEPT ![o].status = "cancelled"]
             /\ UNCHANGED <<ledger, stock>>]_vars
  /\ \A o \in OrderIds :
        (o <= Len(orders) /\ o \in overdue /\ orders[o].status = "on-hold")
        ~> (o <= Len(orders) /\ orders[o].status \in {"cancelled"} \cup PaidStatuses)

\* two unpaid orders, both cancelled by the sweeper; the stock and the empty
\* ledger are as they were
SweeperCancelsWitness ==
  /\ Len(orders) = 2
  /\ \A o \in 1..2 : orders[o].status = "cancelled" /\ o \in overdue
  /\ ledger = <<>>
  /\ stock = [p \in Products |-> InitStock]

AddToCartWithinStock ==
  [][\A u \in Users, k \in CartKeys, q \in 1..MaxQty :
        /\ (AddToCart(u, k[1], k[2], q) /\ resp'.code = "Created")
            => cart'[u][k] <= AddToCartStock(k[1], k[2])
        /\ (/\ AddToCart(u, k[1], k[2], q)
            /\ AddToCartFound(k[1], k[2])
            /\ cart[u][k] + q > AddToCartStock(k[1], k[2]))
            => /\ resp'.code = "InsufficientStock"
               /\ UNCHANGED <<cart, cartRows>>]_vars

\* the products whose stock a running PayOrder has compared with its lines
\* and not yet decremented
PayOrderCompared(w) ==
  IF tx[w].op = "PayOrder" /\ tx[w].pc = "p_stock"
  THEN {tx[w].items[i].product : i \in tx[w].idx..Len(tx[w].items)}
  ELSE {}

\* C22: from the moment PayOrder has compared a product's stock with the
\* order line until it decrements it, no step changes that product's stock.
PayOrderStockLocked ==
  [][\A w \in Procs : \A p \in PayOrderCompared(w) :
        stock'[p] = stock[p]]_vars

\* the rows of ledger l that pay order o
PaymentsIn(l, o) ==
  {j \in 1..Len(l) : l[j].kind \in PaymentKinds /\ l[j].order = o}

\* C23: of PayOrder and the sweeper on one on-hold order exactly one wins.
\* The sweeper cancels only an order no running PayOrder holds, and writes
\* neither ledger nor stock; PayOrder commits only on an order that is still
\* on-hold, with one debit and its stock decrements; a cancelled order has no
\* payment row and stays cancelled; PayOrder on a cancelled order is refused
\* and changes nothing.
PayOrderSweeperRace ==
  [][/\ \A o \in OrderIds :
          SweeperTick(o) =>
             /\ \A w \in Procs : ~(tx[w].op = "PayOrder" /\ tx[w].oid = o)
             /\ orders[o].status = "on-hold"
             /\ orders'[o].status = "cancelled"
             /\ UNCHANGED <<ledger, stock>>
     /\ \A w \in Procs :
          PayOrderCommit(w) =>
             LET o == tx[w].oid IN
             /\ orders[o].status = "on-hold"
             /\ orders'[o].status = "processing"
             /\ PaymentsIn(ledger, o) = {}
             /\ Cardinality(PaymentsIn(ledger', o)) = 1
             /\ \A p \in Products :
                   stock'[p] = stock[p] - SumQty(orders[o].items, p)
     /\ \A o \in 1..Len(orders') :
          orders'[o].status = "cancelled" => PaymentsIn(ledger', o) = {}
     /\ \A o \in 1..Len(orders) :
          orders[o].status = "cancelled" => orders'[o].status = "cancelled"
     /\ \A w \in Procs, u \in Users, o \in 1..Len(orders) :
          (/\ orders[o].user = u
           /\ orders[o].status = "cancelled"
           /\ PayOrderBegin(w, u, o))
          => /\ resp'.code = "InvalidState"
             /\ tx'[w] = IdleTx
             /\ UNCHANGED <<orders, ledger, stock>>]_vars

\* both outcomes of the race: one overdue order was paid by PayOrder before
\* the sweeper got it, the other one was cancelled
PayOrderSweeperRaceWitness ==
  /\ Len(orders) = 2
  /\ overdue = {1, 2}
  /\ \E o \in 1..2 :
        /\ orders[o].status = "processing"
        /\ \E j \in PaymentsIn(ledger, o) : ledger[j].kind = "order_payment"
  /\ \E o \in 1..2 :
        orders[o].status = "cancelled" /\ PaymentsIn(ledger, o) = {}

\* C24: a ledger row of type order_payment or withdrawal never has a positive
\* amount, whatever amount the write primitive was called with: a positive
\* amount is stored negated, so a row of these types never raises a balance
DebitKindsNeverCredit ==
  \A i \in 1..Len(ledger) :
     ledger[i].kind \in DebitKinds
       => /\ ledger[i].amount <= 0
          /\ ledger[i].balanceAfter
               <= GetWalletBalance(SubSeq(ledger, 1, i - 1), ledger[i].user)

\* C25: the ledger is append-only.  Every step of every handler leaves the rows
\* the ledger holds as they are (amount, balance_after and all) and at most
\* adds rows after them; a balance changes only when a row is added; a
\* committed rejection adds one refund row and rewrites nothing
LedgerAppendOnly ==
  [][/\ Len(ledger') >= Len(ledger)
     /\ SubSeq(ledger', 1, Len(ledger)) = ledger
     /\ \A u \in Users :
           GetWalletBalance(ledger', u) # GetWalletBalance(ledger, u)
             => Len(ledger') > Len(ledger)
     /\ \A w \in Procs :
           (ProcessWithdrawalRequestCommit(w) /\ tx[w].action = "reject")
             => /\ Len(ledger') = Len(ledger) + 1
                /\ ledger'[Len(ledger')].kind = "refund"
                /\ ledger'[Len(ledger')].amount = withdrawals[tx[w].rid].amount]_vars

\* a rejected withdrawal: the withdrawal's debit is still in the ledger and the
\* refund is the newest row
LedgerAppendOnlyWitness ==
  /\ \E r \in 1..Len(withdrawals) : withdrawals[r].status = "rejected"
  /\ \E i \in 1..Len(ledger) : ledger[i].kind = "withdrawal"
  /\ ledger # <<>> /\ ledger[Len(ledger)].kind = "refund"

\* SUM(unit_price * quantity) over the order_items rows of an order
RECURSIVE LinesTotal(_)
LinesTotal(lines) ==
  IF lines = <<>> THEN 0
  ELSE Head(lines).unitPrice * Head(lines).quantity + LinesTotal(Tail(lines))

\* C26: the total of every order is the sum of unit price times quantity over
\* its lines, every payment row of an order debits exactly that sum, and a
\* paid order has such a row, whether Checkout or PayOrder paid it
OrderTotalIsLinesSum ==
  /\ \A o \in 1..Len(orders) :
        /\ orders[o].total = LinesTotal(orders[o].items)
        /\ orders[o].status \in PaidStatuses => PaymentsIn(ledger, o) # {}
        /\ \A j \in PaymentsIn(ledger, o) :
              ledger[j].amount = -LinesTotal(orders[o].items)
  /\ \A w \in Procs :
        tx[w].op \in {"Checkout", "PayOrder"} /\ tx[w].debit # <<>>
          => tx[w].debit[1].amount = -tx[w].total

\* an order of two lines that Checkout left on hold and PayOrder paid later
OrderTotalIsLinesSumWitness ==
  \E o \in 1..Len(orders) :
     /\ Len(orders[o].items) = 2
     /\ orders[o].status = "processing"
     /\ \E j \in PaymentsIn(ledger, o) :
           ledger[j].kind = "order_payment" /\ ledger[j].amount <= -2

\* C27: a Checkout that commits has made one order line of every line the cart
\* held, with the line's product and quantity, and deletes no other line; so
\* a line AddToCart accepted is in the order
CheckoutKeepsEveryLine ==
  [][\A w \in Procs :
        CheckoutCommit(w)
          => LET u == tx[w].user
                 lines == orders'[Len(orders')].items
             IN /\ Len(lines) = Cardinality(CartLines(cart[u]))
                /\ \A k \in CartLines(cart[u]) :
                      \E i \in 1..Len(lines) :
                         /\ lines[i].product = k[1]
                         /\ lines[i].quantity = cart[u][k]]_vars

\* C28: however the steps of concurrent RequestWithdrawal calls interleave, a
\* wallet that only top-ups, withdrawals and refunds touch never has a negative
\* balance, and no withdrawal row records a negative balance_after
WithdrawalsWithinBalance ==
  /\ \A u \in Users : GetWalletBalance(ledger, u) >= 0
  /\ \A i \in 1..Len(ledger) :
        ledger[i].kind = "withdrawal" => ledger[i].balanceAfter >= 0

\* the sum of the amounts of the ledger rows of user u that have type kind
RECURSIVE KindTotal(_, _, _)
KindTotal(l, u, kind) ==
  IF l = <<>> THEN 0
  ELSE (IF Head(l).user = u /\ Head(l).kind = kind THEN Head(l).amount ELSE 0)
       + KindTotal(Tail(l), u, kind)

\* the sum of the amounts of the withdrawal requests of user u whose status is
\* in S
RECURSIVE RequestTotal(_, _, _)
RequestTotal(reqs, u, S) ==
  IF reqs = <<>> THEN 0
  ELSE (IF Head(reqs).user = u /\ Head(reqs).status \in S
        THEN Head(reqs).amount ELSE 0)
       + RequestTotal(Tail(reqs), u, S)

\* C29: a withdrawal request is decided at most once.  A decision commits only
\* on a pending request; a decided request keeps its status; a call on a
\* decided request answers AlreadyProcessed and writes nothing; an approval
\* adds no ledger row; a rejection adds exactly one refund row of the requested
\* amount, so the refunds of a wallet always equal the amounts of its rejected
\* requests and the balance is back at its value without the request
WithdrawalDecidedOnce ==
  [][/\ \A w \in Procs :
          ProcessWithdrawalRequestCommit(w)
            => LET r == tx[w].rid IN
               /\ withdrawals[r].status = "pending"
               /\ withdrawals'[r].status = ProcessedStatus(tx[w].action)
               /\ tx[w].action = "approve" => ledger' = ledger
               /\ tx[w].action = "reject"
                    => /\ Len(ledger') = Len(ledger) + 1
                       /\ SubSeq(ledger', 1, Len(ledger)) = ledger
                       /\ ledger'[Len(ledger')].kind = "refund"
                       /\ ledger'[Len(ledger')].user = withdrawals[r].user
                       /\ ledger'[Len(ledger')].amount = withdrawals[r].amount
                       /\ GetWalletBalance(ledger', withdrawals[r].user)
                            = GetWalletBalance(ledger, withdrawals[r].user)
                              + withdrawals[r].amount
     /\ \A r \in 1..Len(withdrawals) :
          withdrawals[r].status # "pending"
            => /\ withdrawals'[r] = withdrawals[r]
               /\ \A w \in Procs, action \in WithdrawalActions :
                     ProcessWithdrawalRequestBegin(w, r, action)
                       => /\ resp'.code = "AlreadyProcessed"
                          /\ tx'[w] = IdleTx
                          /\ UNCHANGED <<ledger, withdrawals>>
     /\ \A u \in Users :
          /\ KindTotal(ledger', u, "refund")
               = RequestTotal(withdrawals', u, {"rejected"})
          /\ -KindTotal(ledger', u, "withdrawal")
               = RequestTotal(withdrawals', u,
                              {"pending", "approved", "rejected"})]_vars

\* a rejected request with its refund in the ledger, and a further call on it
\* that was answered as already processed
WithdrawalDecidedOnceWitness ==
  /\ resp.op = "ProcessWithdrawalRequest"
  /\ resp.code = "AlreadyProcessed"
  /\ \E r \in 1..Len(withdrawals) : withdrawals[r].status = "rejected"
  /\ \E i \in 1..Len(ledger) : ledger[i].kind = "refund"

\* the answers with which Checkout and PayOrder end
FinalCodes == {"Created", "OK", "ServerError"}

TypeOK ==
  /\ Len(orders) <= MaxOrders
  /\ Len(ledger) <= MaxLedger
  /\ Len(withdrawals) <= MaxWithdrawals

====
